---- MODULE Spec2Model ----
(***************************************************************************)
(* Model of app.py: the wide-to-long normalizer (transform_wide_to_long,   *)
(* load_data, refresh_data) and the filter-and-aggregate callback          *)
(* (update_dashboard, platform_progress_card).                             *)
(*                                                                         *)
(* SpecNorm draws a wide sheet and applies refresh_data to it; SpecAgg     *)
(* draws a published dataset and applies update_dashboard to it with every *)
(* filter; SpecCodes draws a dataset and applies update_district_buttons;  *)
(* SpecReact and SpecLive are the page: the user's events and the          *)
(* callbacks that Dash runs through their declared Inputs and Outputs.     *)
(*                                                                         *)
(* Numbers are exact: a float that the code computes by division is kept   *)
(* as a fraction n/d with d > 0, so equalities such as "percentage is      *)
(* exactly 80" are decided without rounding.  Chart rendering (plotly) is  *)
(* outside the model; a figure is represented by the records it is given.  *)
(***************************************************************************)
EXTENDS Integers, Sequences, FiniteSets, TLC

VARIABLES sheet,             \* the wide table the Google Sheet serves
          data_store,        \* dcc.Store 'data_store'
          data_status,       \* 'data_status'.children
          month_options,     \* 'month_filter'.options (values)
          platform_options,  \* 'platform_filter'.options (values)
          district_store,    \* dcc.Store 'district_store'
          month_filter,      \* 'month_filter'.value
          platform_filter,   \* 'platform_filter'.value
          dashboard,         \* the four outputs of update_dashboard
          pc,                \* outcome of the last callback
          pending,           \* callbacks requested and not yet run
          preds,             \* per requested callback: the callbacks that led to it
          inflight,          \* per loading callback: the fetch it has made, if any
          triggered,         \* callback_context.triggered of update_district_selection
          buttons,           \* 'district_buttons_container'.children
          signal,            \* history: the user's signal being served
          fetches,           \* history: calls of load_data since that signal
          writes,            \* history: writes of data_store since that signal
          runs,              \* history: runs of update_dashboard since that signal
          latest,            \* history: the load requested most recently
          store_from_latest, \* history: data_store was written by that load
          ignored            \* history: a fetch in flight was superseded

\* the state that only the callback graph uses
reactive == <<pending, preds, inflight, triggered, buttons,
              signal, fetches, writes, runs, latest, store_from_latest, ignored>>

Callbacks == {"refresh_data", "initial_load", "update_district_buttons",
              "update_district_selection", "update_dashboard"}

\* the callbacks that call load_data
Loads == {"refresh_data", "initial_load"}

NoFetch == [on |-> FALSE]

vars == <<sheet, data_store, data_status, month_options, platform_options,
          district_store, month_filter, platform_filter, dashboard, pc,
          reactive>>

\* no callback requested, the button container as laid out (no children)
ReactiveIdle ==
  /\ pending = {}
  /\ preds = [c \in Callbacks |-> {}]
  /\ inflight = [c \in Loads |-> NoFetch]
  /\ triggered = {}
  /\ buttons = <<>>
  /\ signal = "none"
  /\ fetches = 0
  /\ writes = 0
  /\ runs = 0
  /\ latest = "none"
  /\ store_from_latest = FALSE
  /\ ignored = FALSE

----------------------------------------------------------------------------
(* Bounds of the model *)

MaxRows == 2

----------------------------------------------------------------------------
(* Cells of the sheet.  A metric cell is a number, a missing value (NaN),  *)
(* or non-numeric text.  Missing text fields are the string "NaN", which   *)
(* read_csv never returns as a value (it is parsed as missing).            *)

Num(n) == [k |-> "num", v |-> n]

NaN == [k |-> "nan", v |-> 0]

Text(n) == [k |-> "text", v |-> n]

NaNStr == "NaN"

PlatformNames == <<"Facebook", "Instagram", "YouTube", "WhatsApp">>

MetricKeys == <<"posts", "interactions", "views", "followers">>

platform_columns ==
  [Facebook  |-> [posts        |-> "Facebook - Total Posts ",
                  interactions |-> "Facebook - Total Interactions ",
                  views        |-> "Facebook - Total Views  ",
                  followers    |-> "Facebook - Followers Gained  "],
   Instagram |-> [posts        |-> "Instagram - Total Posts  ",
                  interactions |-> "Instagram - Total Interactions  ",
                  views        |-> "Instagram - Total Views  ",
                  followers    |-> "Instagram - Followers Gained  "],
   YouTube   |-> [posts        |-> "YouTube - Total Posts  ",
                  interactions |-> "YouTube - Total Interactions  ",
                  views        |-> "YouTube - Total Views  ",
                  followers    |-> "YouTube - Followers Gained  "],
   WhatsApp  |-> [posts        |-> "WhatsApp - Total Posts  ",
                  interactions |-> "WhatsApp - Total Interactions  ",
                  views        |-> "WhatsApp - Total Views  ",
                  followers    |-> "WhatsApp - Followers Gained  "]]

MonthColumn == "Month"

DistrictColumn == "District  "

Range(s) == {s[i] : i \in 1..Len(s)}

MetricColumns ==
  {platform_columns[p][m] : p \in Range(PlatformNames), m \in Range(MetricKeys)}

ExpectedColumns == MetricColumns \cup {MonthColumn, DistrictColumn}

----------------------------------------------------------------------------
(* The sheets the model draws from.  A sheet is the fetch outcome, the     *)
(* header (set of column labels) and the rows; a row maps every label of   *)
(* ExpectedColumns to a cell, and only the labels of the header exist.     *)

Cells(a, b, c, d) == [posts |-> a, interactions |-> b, views |-> c, followers |-> d]

ProfileTarget ==
  [Facebook  |-> Cells(Num(1), Num(200), Num(2000), Num(5)),
   Instagram |-> Cells(Num(1), Num(30), Num(1500), Num(2)),
   YouTube   |-> Cells(Num(0), Num(0), Num(0), Num(0)),
   WhatsApp  |-> Cells(Num(0), Num(1), Num(500), Num(0))]

ProfileMixed ==
  [Facebook  |-> Cells(Num(2), Num(100), Num(1000), Num(1)),
   Instagram |-> Cells(Num(1), Num(0), Num(2400), Num(0)),
   YouTube   |-> Cells(Num(1), Num(7), Num(1750), Num(1)),
   WhatsApp  |-> Cells(Num(0), Num(5), Num(0), Num(0))]

ProfileDirty ==
  [Facebook  |-> Cells(Num(1), Num(5), Num(0 - 2000), Num(0)),
   Instagram |-> Cells(NaN, NaN, NaN, NaN),
   YouTube   |-> Cells(Text(0), Num(0), Num(0), NaN),
   WhatsApp  |-> Cells(Num(1), NaN, Num(10), Num(0))]

ProfileTextViews ==
  [Facebook  |-> Cells(Num(1), Num(1), Text(0), Num(0)),
   Instagram |-> Cells(Num(0), Num(0), Num(0), Num(0)),
   YouTube   |-> Cells(Num(0), Num(0), Num(0), Num(0)),
   WhatsApp  |-> Cells(Num(0), Num(0), Num(0), Num(0))]

Profiles == {ProfileTarget, ProfileMixed, ProfileDirty, ProfileTextViews}

Districts == {"Kochi", "Goa"}

RawMonths == {"May", NaNStr}

WideRows == [District : Districts, Month : RawMonths, m : Profiles]

Headers ==
  {ExpectedColumns,
   ExpectedColumns \ {"Facebook - Total Posts "},
   ExpectedColumns \ {"WhatsApp - Followers Gained  "}}

RowSeqs == UNION {[1..n -> WideRows] : n \in 0..MaxRows}

Sheets ==
  [ok : {TRUE}, header : Headers, rows : RowSeqs]
    \cup {[ok |-> FALSE, header |-> ExpectedColumns, rows |-> <<>>]}

----------------------------------------------------------------------------
(* read_google_sheet_as_df / pd.read_csv *)

\* row[label] for a metric label of the platform table
RawCell(row, p, m) == row.m[p][m]

\* read_csv infers one dtype per column: a column holding any non-numeric
\* text is read as text throughout, its numbers included.
ColumnHasText(rows, p, m) ==
  \E i \in 1..Len(rows) : RawCell(rows[i], p, m).k = "text"

read_csv(rows) ==
  [i \in 1..Len(rows) |->
     [rows[i] EXCEPT !.m =
        [p \in DOMAIN rows[i].m |->
           [m \in DOMAIN rows[i].m[p] |->
              IF ColumnHasText(rows, p, m) /\ rows[i].m[p][m].k = "num"
                THEN Text(rows[i].m[p][m].v)
                ELSE rows[i].m[p][m]]]]]

\* the fetch raises when the sheet cannot be reached
read_google_sheet_as_df(s) ==
  IF s.ok
    THEN [raised |-> FALSE, columns |-> s.header, rows |-> read_csv(s.rows)]
    ELSE [raised |-> TRUE, columns |-> {}, rows |-> <<>>]

----------------------------------------------------------------------------
(* transform_wide_to_long *)

Zero == [k |-> "num", n |-> 0, d |-> 1]

NaNRate == [k |-> "nan", n |-> 0, d |-> 1]

\* views > 0 (a comparison with NaN is False)
ViewsPositive(views) == views.k = "num" /\ views.v > 0

\* the ratio left as a fraction, not multiplied by 100
EngagementRate_Mutant(interactions, views) ==
  IF ViewsPositive(views)
    THEN IF interactions.k = "nan"
           THEN NaNRate
           ELSE [k |-> "num", n |-> interactions.v, d |-> views.v]
    ELSE Zero

\* (interactions / views) * 100 if views > 0 else 0
EngagementRate(interactions, views) ==
  IF ViewsPositive(views)
    THEN IF interactions.k = "nan"
           THEN NaNRate
           ELSE [k |-> "num", n |-> interactions.v * 100, d |-> views.v]
    ELSE Zero

\* KeyError of row[label], TypeError of a str compared or divided
RecordRaises(columns, row, p) ==
  \/ \E m \in Range(MetricKeys) : platform_columns[p][m] \notin columns
  \/ RawCell(row, p, "views").k = "text"
  \/ /\ ViewsPositive(RawCell(row, p, "views"))
     /\ RawCell(row, p, "interactions").k = "text"
  \/ MonthColumn \notin columns
  \/ DistrictColumn \notin columns

\* the dict appended for one (row, platform)
LongRecord(row, p) ==
  [Month              |-> row.Month,
   District           |-> row.District,
   Platform           |-> p,
   Total_Posts        |-> RawCell(row, p, "posts"),
   Total_Interactions |-> RawCell(row, p, "interactions"),
   Total_Views        |-> RawCell(row, p, "views"),
   Followers_Gained   |-> RawCell(row, p, "followers"),
   Engagement_Rate    |-> EngagementRate(RawCell(row, p, "interactions"),
                                         RawCell(row, p, "views"))]

\* the inner loop with all-zero records suppressed
RowRecords_Mutant(row) ==
  SelectSeq([i \in 1..Len(PlatformNames) |-> LongRecord(row, PlatformNames[i])],
            LAMBDA r : ~(/\ r.Total_Posts = Num(0) /\ r.Total_Interactions = Num(0)
                         /\ r.Total_Views = Num(0) /\ r.Followers_Gained = Num(0)))

\* the inner loop: for platform, cols in platform_columns.items()
RowRecords(row) == [i \in 1..Len(PlatformNames) |-> LongRecord(row, PlatformNames[i])]

RECURSIVE AllRecords(_)
AllRecords(rows) ==
  IF rows = <<>> THEN <<>> ELSE RowRecords(Head(rows)) \o AllRecords(Tail(rows))

transform_wide_to_long(df_wide) ==
  IF \E i \in 1..Len(df_wide.rows), j \in 1..Len(PlatformNames) :
       RecordRaises(df_wide.columns, df_wide.rows[i], PlatformNames[j])
    THEN [raised |-> TRUE, rows |-> <<>>]
    ELSE [raised |-> FALSE, rows |-> AllRecords(df_wide.rows)]

----------------------------------------------------------------------------
(* load_data *)

LoadErrorMessage ==
  "Please check your data connection. Unable to load data from Google Sheets."

load_data(s) ==
  LET df_wide == read_google_sheet_as_df(s)
      df == IF df_wide.raised THEN [raised |-> TRUE, rows |-> <<>>]
                              ELSE transform_wide_to_long(df_wide)
  IN  IF df.raised
        THEN [raised |-> TRUE, msg |-> LoadErrorMessage, rows |-> <<>>]
        ELSE [raised |-> FALSE, msg |-> "", rows |-> df.rows]

----------------------------------------------------------------------------
(* refresh_data *)

\* Series.unique(): the distinct values in order of first appearance
Unique(s) ==
  LET first == {i \in 1..Len(s) : \A j \in 1..(i - 1) : s[j] # s[i]}
  IN  [n \in 1..Cardinality(first) |->
         s[CHOOSE i \in first : Cardinality({j \in first : j <= i}) = n]]

\* Series.fillna("Unknown")
FillnaUnknown(v) == IF v = NaNStr THEN "Unknown" ELSE v

\* what refresh_data returns once load_data has returned or raised
RefreshReturn(fresh) ==
  IF fresh.raised
    THEN [data |-> <<>>, status |-> fresh.msg, months |-> <<>>, platforms |-> <<>>]
  ELSE IF fresh.rows = <<>>
    \* pd.DataFrame([]) has no columns: fresh_df["Month"] raises KeyError
    THEN [data |-> <<>>, status |-> "'Month'", months |-> <<>>, platforms |-> <<>>]
  ELSE [data      |-> fresh.rows,
        status    |-> "",
        months    |-> <<"All">> \o
                      Unique([i \in 1..Len(fresh.rows) |->
                                FillnaUnknown(fresh.rows[i].Month)]),
        platforms |-> <<"All">> \o
                      Unique([i \in 1..Len(fresh.rows) |-> fresh.rows[i].Platform])]

\* the except branch returning an empty status
RefreshOutputs_Mutant(s) ==
  LET fresh == load_data(s) IN
  IF fresh.raised \/ fresh.rows = <<>>
    THEN [data |-> <<>>, status |-> "", months |-> <<>>, platforms |-> <<>>]
  ELSE [data      |-> fresh.rows,
        status    |-> "",
        months    |-> <<"All">> \o
                      Unique([i \in 1..Len(fresh.rows) |->
                                FillnaUnknown(fresh.rows[i].Month)]),
        platforms |-> <<"All">> \o
                      Unique([i \in 1..Len(fresh.rows) |-> fresh.rows[i].Platform])]

\* the four outputs of refresh_data; load_data is called once
RefreshOutputs(s) ==
  CHOOSE out \in {RefreshReturn(fresh) : fresh \in {load_data(s)}} : TRUE

NoDashboard == [returned |-> FALSE]

refresh_data ==
  /\ pc = "loaded"
  /\ LET out == RefreshOutputs(sheet) IN
       /\ data_store' = out.data
       /\ data_status' = out.status
       /\ month_options' = out.months
       /\ platform_options' = out.platforms
  /\ pc' = "refreshed"
  /\ UNCHANGED <<sheet, district_store, month_filter, platform_filter, dashboard>>
  /\ UNCHANGED reactive

InitNorm ==
  /\ sheet \in Sheets
  /\ data_store = <<>>
  /\ data_status = ""
  /\ month_options = <<>>
  /\ platform_options = <<>>
  /\ district_store = "All"
  /\ month_filter = "All"
  /\ platform_filter = "All"
  /\ dashboard = NoDashboard
  /\ pc = "loaded"
  /\ ReactiveIdle

NextNorm == refresh_data

SpecNorm == InitNorm /\ [][NextNorm]_vars

----------------------------------------------------------------------------
(* platform_progress_card *)

\* a fraction n/d with d > 0 compared with an integer
FracGE(x, c) == x.n >= c * x.d

FracLT(x, c) == x.n < c * x.d

\* the tie-break taken with > in place of >=
TieBreak_Mutant(actual_views, target_views) ==
  IF actual_views > target_views THEN actual_views + 1000 ELSE target_views

\* if actual_views >= target_views: target_views = actual_views + 1000
TieBreak(actual_views, target_views) ==
  IF actual_views >= target_views THEN actual_views + 1000 ELSE target_views

\* min(100, (actual_views / target_views) * 100) if target_views > 0 else 0
Percentage(actual_views, target_views) ==
  IF target_views > 0
    THEN LET x == [n |-> actual_views * 100, d |-> target_views]
         IN  IF FracLT(x, 100) THEN x ELSE [n |-> 100, d |-> 1]
    ELSE [n |-> 0, d |-> 1]

\* the upper threshold taken with > in place of >=
PerformanceText_Mutant(percentage) ==
  IF percentage.n > 80 * percentage.d THEN "Excellent"
  ELSE IF FracGE(percentage, 60) THEN "Good"
  ELSE "Needs Improvement"

PerformanceText(percentage) ==
  IF FracGE(percentage, 80) THEN "Excellent"
  ELSE IF FracGE(percentage, 60) THEN "Good"
  ELSE "Needs Improvement"

platform_progress_card(platform_name, actual_views, target_views) ==
  LET target == TieBreak(actual_views, target_views)
      percentage == Percentage(actual_views, target)
  IN  [platform_name    |-> platform_name,
       actual_views     |-> actual_views,
       target_views     |-> target,
       percentage       |-> percentage,
       performance_text |-> PerformanceText(percentage)]

----------------------------------------------------------------------------
(* update_dashboard *)

TARGET_VIEWS_PER_POST == 2500

MinimumTarget == 1000

platforms_to_show == <<"Facebook", "Instagram", "YouTube", "WhatsApp">>

SumColumns == <<"Total_Posts", "Total_Interactions", "Total_Views", "Followers_Gained">>

KpiTitles == <<"Total Posts", "Total Interactions", "Total Views", "Followers Gained">>

\* one element of (Series == value): a missing value equals nothing
FieldEquals(field, value) == field # NaNStr /\ field = value

FilterDistrict(df, selected_district) ==
  IF selected_district # "All"
    THEN SelectSeq(df, LAMBDA r : FieldEquals(r.District, selected_district))
    ELSE df

FilterMonth(df, selected_month) ==
  IF selected_month # "All"
    THEN SelectSeq(df, LAMBDA r : FieldEquals(r.Month, selected_month))
    ELSE df

FilterPlatform(df, selected_platform) ==
  IF selected_platform # "All"
    THEN SelectSeq(df, LAMBDA r : FieldEquals(r.Platform, selected_platform))
    ELSE df

\* the platform filter taken from the unfiltered frame, dropping the two before it
ApplyFilters_Mutant(df, selected_district, selected_month, selected_platform) ==
  IF selected_platform # "All"
    THEN FilterPlatform(df, selected_platform)
    ELSE FilterMonth(FilterDistrict(df, selected_district), selected_month)

ApplyFilters(df, selected_district, selected_month, selected_platform) ==
  FilterPlatform(FilterMonth(FilterDistrict(df, selected_district), selected_month),
                 selected_platform)

\* Series.sum(): missing values are skipped, an empty series sums to 0
RECURSIVE SeriesSum(_, _)
SeriesSum(df, col) ==
  IF df = <<>> THEN 0
  ELSE (IF Head(df)[col].k = "num" THEN Head(df)[col].v ELSE 0)
         + SeriesSum(Tail(df), col)

\* a text column sums to a str, which kpi_card cannot format ({value:,.0f})
SumRaises(df) ==
  \E i \in 1..Len(df), c \in 1..Len(SumColumns) : df[i][SumColumns[c]].k = "text"

\* the "Followers Gained" card fed the Total_Views column
KpiCards_Mutant(filtered_df) ==
  [c \in 1..Len(SumColumns) |->
     [title |-> KpiTitles[c],
      value |-> SeriesSum(filtered_df, SumColumns[IF c = 4 THEN 3 ELSE c])]]

KpiCards(filtered_df) ==
  [c \in 1..Len(SumColumns) |->
     [title |-> KpiTitles[c], value |-> SeriesSum(filtered_df, SumColumns[c])]]

\* the body of: for platform in platforms_to_show
PlatformCard(filtered_df, platform) ==
  LET platform_data == SelectSeq(filtered_df, LAMBDA r : FieldEquals(r.Platform, platform))
  IN  IF platform_data # <<>>
        THEN platform_progress_card(platform,
               SeriesSum(platform_data, "Total_Views"),
               SeriesSum(platform_data, "Total_Posts") * TARGET_VIEWS_PER_POST)
        ELSE platform_progress_card(platform, 0, MinimumTarget)

NoDataCards == [placeholder |-> "No data available", cards |-> <<>>]

\* the cards built without the "if not filtered_df.empty" guard
PlatformCards_Mutant(filtered_df) ==
  [placeholder |-> "",
   cards |-> [i \in 1..Len(platforms_to_show) |->
                PlatformCard(filtered_df, platforms_to_show[i])]]

PlatformCards(filtered_df) ==
  IF filtered_df # <<>>
    THEN [placeholder |-> "",
          cards |-> [i \in 1..Len(platforms_to_show) |->
                       PlatformCard(filtered_df, platforms_to_show[i])]]
    ELSE NoDataCards

\* the four outputs when the callback returns
DashboardOutputs(selected_district, selected_month, selected_platform, data_dict) ==
  IF data_dict = <<>>
    THEN [returned           |-> TRUE,
          platform_chart     |-> [title |-> "No data available", data |-> <<>>],
          platform_cards     |-> NoDataCards,
          kpi_section        |-> <<>>,
          engagement_section |-> FALSE]
    ELSE LET filtered_df == ApplyFilters(data_dict, selected_district,
                                         selected_month, selected_platform)
         IN  [returned           |-> TRUE,
              platform_chart     |->
                IF filtered_df # <<>>
                  THEN [title |-> "Platform Performance by District", data |-> filtered_df]
                  ELSE [title |-> "No data available for selected filters", data |-> <<>>],
              platform_cards     |-> PlatformCards(filtered_df),
              kpi_section        |-> KpiCards(filtered_df),
              engagement_section |-> selected_district # "All" /\ filtered_df # <<>>]

DashboardRaises(selected_district, selected_month, selected_platform, data_dict) ==
  /\ data_dict # <<>>
  /\ SumRaises(ApplyFilters(data_dict, selected_district, selected_month,
                            selected_platform))

\* the values the three filter inputs are drawn from
DistrictInputs == {"All", "Kochi", "Goa", "kochi"}

MonthInputs == {"All", "May", "Unknown"}

PlatformInputs == {"All"} \cup Range(platforms_to_show)

update_dashboard ==
  /\ pc = "refreshed"
  /\ \E d \in DistrictInputs, m \in MonthInputs, p \in PlatformInputs :
       /\ district_store' = d
       /\ month_filter' = m
       /\ platform_filter' = p
       /\ IF DashboardRaises(d, m, p, data_store)
            THEN pc' = "raised" /\ dashboard' = dashboard
            ELSE pc' = "updated" /\ dashboard' = DashboardOutputs(d, m, p, data_store)
  /\ UNCHANGED <<sheet, data_store, data_status, month_options, platform_options>>
  /\ UNCHANGED reactive

Unfetched == [ok |-> FALSE, header |-> ExpectedColumns, rows |-> <<>>]

InitAgg ==
  /\ sheet = Unfetched
  /\ \E s \in Sheets :
       LET out == RefreshOutputs(s) IN
         /\ data_store = out.data
         /\ data_status = out.status
         /\ month_options = out.months
         /\ platform_options = out.platforms
  /\ district_store = "All"
  /\ month_filter = "All"
  /\ platform_filter = "All"
  /\ dashboard = NoDashboard
  /\ pc = "refreshed"
  /\ ReactiveIdle

NextAgg == update_dashboard

SpecAgg == InitAgg /\ [][NextAgg]_vars

----------------------------------------------------------------------------
(* Vocabulary of the properties: the published dataset seen through the    *)
(* current filter, record by record.                                       *)

Passes(r) ==
  /\ district_store = "All" \/ r.District = district_store
  /\ month_filter = "All" \/ r.Month = month_filter
  /\ platform_filter = "All" \/ r.Platform = platform_filter

CellValue(cell) == IF cell.k = "num" THEN cell.v ELSE 0

\* sum of column col over the first n records of data_store that pass the
\* filter and, unless platform is "All", belong to platform
RECURSIVE TotalOf(_, _, _)
TotalOf(n, col, platform) ==
  IF n = 0 THEN 0
  ELSE TotalOf(n - 1, col, platform)
         + (IF Passes(data_store[n])
               /\ (platform = "All" \/ data_store[n].Platform = platform)
              THEN CellValue(data_store[n][col]) ELSE 0)

\* number of passing records of a platform
Matching(platform) ==
  Cardinality({i \in 1..Len(data_store) :
                 Passes(data_store[i])
                 /\ (platform = "All" \/ data_store[i].Platform = platform)})

Updated == pc = "updated"

Cards == dashboard.platform_cards.cards

----------------------------------------------------------------------------
\* C1: on a non-empty dataset, the records update_dashboard keeps are exactly
\* the records of the dataset for which each of the three filter values is
\* "All" or equals the record's field, the three conditions being ANDed.
C1_FilterIff ==
  (Updated /\ data_store # <<>>) =>
     dashboard.platform_chart.data = SelectSeq(data_store, Passes)

C1_Witness ==
  /\ Updated
  /\ district_store # "All" /\ month_filter # "All" /\ platform_filter # "All"
  /\ Len(dashboard.platform_chart.data) > 0
  /\ Len(dashboard.platform_chart.data) < Len(data_store)
  /\ \E i \in 1..Len(data_store) :
       /\ data_store[i].District = district_store
       /\ data_store[i].Platform = platform_filter
       /\ data_store[i].Month # month_filter

----------------------------------------------------------------------------
----------------------------------------------------------------------------
----------------------------------------------------------------------------
\* C4: for each published platform entry, with S the passing records of that
\* platform: actual_views is the sum of Total_Views over S; the initial
\* target is 2500 times the sum of Total_Posts over S when S is non-empty
\* and 1000 when S is empty; the tie-break is applied to that initial
\* target, so a non-empty S with zero posts and zero views ends at 1000.
InitialTarget(platform) ==
  IF Matching(platform) > 0
    THEN 2500 * TotalOf(Len(data_store), "Total_Posts", platform)
    ELSE 1000

C4_ActualAndTarget ==
  Updated =>
    \A i \in 1..Len(Cards) :
      LET p == platforms_to_show[i]
          actual == TotalOf(Len(data_store), "Total_Views", p)
      IN  /\ Cards[i].actual_views = actual
          /\ actual >= InitialTarget(p) => Cards[i].target_views = actual + 1000
          /\ actual < InitialTarget(p) => Cards[i].target_views = InitialTarget(p)
          /\ (Matching(p) > 0 /\ actual = 0
                /\ TotalOf(Len(data_store), "Total_Posts", p) = 0)
               => Cards[i].target_views = 1000

C4_Witness ==
  /\ Updated
  /\ \E i \in 1..Len(Cards) :
       /\ Matching(platforms_to_show[i]) > 0
       /\ TotalOf(Len(data_store), "Total_Posts", platforms_to_show[i]) = 0
       /\ Cards[i].actual_views = 0
       /\ Cards[i].target_views = 1000
  /\ \E i \in 1..Len(Cards) :
       /\ Cards[i].actual_views > 0
       /\ Cards[i].target_views = 2500 * 2
  /\ \E i \in 1..Len(Cards) :
       /\ Cards[i].actual_views > 0
       /\ Cards[i].target_views = Cards[i].actual_views + 1000

----------------------------------------------------------------------------
\* C5: every published platform entry has target_views > actual_views and
\* target_views > 0, and its percentage lies in [0, 100).
C5_TargetAboveActual ==
  Updated =>
    \A i \in 1..Len(Cards) :
      /\ Cards[i].target_views > Cards[i].actual_views
      /\ Cards[i].target_views > 0
      /\ Cards[i].percentage.n >= 0
      /\ Cards[i].percentage.n < 100 * Cards[i].percentage.d

----------------------------------------------------------------------------
\* C6: the tier of every published entry follows from its percentage by
\* closed-open intervals: "Excellent" iff percentage >= 80, "Good" iff
\* 60 <= percentage < 80, "Needs Improvement" iff percentage < 60; so 80 is
\* "Excellent", 60 is "Good", and every percentage has exactly one tier.
C6_TierIntervals ==
  Updated =>
    \A i \in 1..Len(Cards) :
      LET n == Cards[i].percentage.n
          d == Cards[i].percentage.d
          t == Cards[i].performance_text
      IN  /\ d > 0
          /\ t \in {"Excellent", "Good", "Needs Improvement"}
          /\ t = "Excellent" <=> n >= 80 * d
          /\ t = "Good" <=> (n >= 60 * d /\ n < 80 * d)
          /\ t = "Needs Improvement" <=> n < 60 * d

C6_Witness ==
  /\ Updated
  /\ \E i \in 1..Len(Cards) :
       /\ Cards[i].percentage.n = 80 * Cards[i].percentage.d
       /\ Cards[i].performance_text = "Excellent"
  /\ \E i \in 1..Len(Cards) :
       /\ Cards[i].percentage.n = 60 * Cards[i].percentage.d
       /\ Cards[i].performance_text = "Good"
  /\ \E i \in 1..Len(Cards) :
       /\ Cards[i].percentage.n > 0
       /\ Cards[i].percentage.n < 60 * Cards[i].percentage.d
       /\ Cards[i].performance_text = "Needs Improvement"

----------------------------------------------------------------------------
(* Vocabulary of the normalizer properties *)

Refreshed == pc = "refreshed"

\* load_data returned: refresh_data did not publish its error message
Loaded == Refreshed /\ data_status # LoadErrorMessage

\* the cells of wide row i as read_csv delivers them
WideCell(i, p, m) == read_csv(sheet.rows)[i].m[p][m]

----------------------------------------------------------------------------
\* C7: whenever transform_wide_to_long returns, N wide rows have given
\* exactly 4N records, record 4(i-1)+j being row i under the j-th platform
\* of Facebook, Instagram, YouTube, WhatsApp; records whose four metric
\* fields are all zero are emitted like the others.
C7_FanOut ==
  Loaded =>
    /\ Len(data_store) = 4 * Len(sheet.rows)
    /\ \A i \in 1..Len(sheet.rows), j \in 1..4 :
         LET r == data_store[4 * (i - 1) + j] IN
           /\ r.Platform = PlatformNames[j]
           /\ r.District = sheet.rows[i].District
           /\ r.Month = sheet.rows[i].Month
           /\ r.Total_Posts = WideCell(i, PlatformNames[j], "posts")
           /\ r.Total_Interactions = WideCell(i, PlatformNames[j], "interactions")
           /\ r.Total_Views = WideCell(i, PlatformNames[j], "views")
           /\ r.Followers_Gained = WideCell(i, PlatformNames[j], "followers")

C7_Witness ==
  /\ Loaded
  /\ Len(sheet.rows) = 2
  /\ Len(data_store) = 8
  /\ \E k \in 1..Len(data_store) :
       /\ data_store[k].Total_Posts = Num(0)
       /\ data_store[k].Total_Interactions = Num(0)
       /\ data_store[k].Total_Views = Num(0)
       /\ data_store[k].Followers_Gained = Num(0)

----------------------------------------------------------------------------
\* C8: every record transform_wide_to_long produces has engagement_rate = 0
\* when its total_views is 0, and engagement_rate = (total_interactions /
\* total_views) * 100 when its total_views is above 0, that is
\* engagement_rate * total_views = total_interactions * 100 (a missing
\* total_interactions giving a missing rate).
C8_EngagementRate ==
  Loaded =>
    \A k \in 1..Len(data_store) :
      LET r == data_store[k]
          e == r.Engagement_Rate
      IN  /\ e.d > 0
          /\ (r.Total_Views.k = "num" /\ r.Total_Views.v = 0) =>
                (e.k = "num" /\ e.n = 0)
          /\ (r.Total_Views.k = "num" /\ r.Total_Views.v > 0
                /\ r.Total_Interactions.k = "num") =>
                (e.k = "num"
                   /\ e.n * r.Total_Views.v = r.Total_Interactions.v * 100 * e.d)
          /\ (r.Total_Views.k = "num" /\ r.Total_Views.v > 0
                /\ r.Total_Interactions.k = "nan") => e.k = "nan"

C8_Witness ==
  /\ Loaded
  /\ \E k \in 1..Len(data_store) :
       /\ data_store[k].Total_Views = Num(2000)
       /\ data_store[k].Total_Interactions = Num(200)
       /\ data_store[k].Engagement_Rate.n = 10 * data_store[k].Engagement_Rate.d
  /\ \E k \in 1..Len(data_store) :
       /\ data_store[k].Total_Views = Num(0)
       /\ data_store[k].Total_Interactions = Num(5)
       /\ data_store[k].Engagement_Rate.n = 0

----------------------------------------------------------------------------
\* C9: whatever the raw metric values of the wide rows, every produced
\* record has total_posts, total_interactions, total_views and
\* followers_gained as integers >= 0.
C9_NonNegative ==
  Refreshed =>
    \A k \in 1..Len(data_store), c \in 1..Len(SumColumns) :
      /\ data_store[k][SumColumns[c]].k = "num"
      /\ data_store[k][SumColumns[c]].v >= 0

----------------------------------------------------------------------------
\* C10: when an expected metric column is absent from a fetched wide table,
\* load_data does not fail and every row still gives its four records, the
\* absent field being 0.
C10_MissingColumn ==
  (Refreshed /\ sheet.ok /\ sheet.header # ExpectedColumns /\ sheet.rows # <<>>) =>
    /\ data_status # LoadErrorMessage
    /\ Len(data_store) = 4 * Len(sheet.rows)
    /\ \A k \in 1..Len(data_store), c \in 1..4 :
         platform_columns[data_store[k].Platform][MetricKeys[c]] \notin sheet.header
           => data_store[k][SumColumns[c]] = Num(0)

----------------------------------------------------------------------------
\* C11: every record of the published dataset has a text month and a text
\* district, a missing month being the literal "Unknown"; so the month
\* option "Unknown" selects exactly the records whose source month was
\* missing.
SourceMonthMissing(r) == r.Month = NaNStr \/ r.Month = "Unknown"

C11_UnknownMonth ==
  /\ \A k \in 1..Len(data_store) :
       data_store[k].Month # NaNStr /\ data_store[k].District # NaNStr
  /\ (Updated /\ data_store # <<>> /\ month_filter = "Unknown"
        /\ district_store = "All" /\ platform_filter = "All") =>
       dashboard.platform_chart.data = SelectSeq(data_store, SourceMonthMissing)

----------------------------------------------------------------------------
(* update_district_buttons (app.py 633-709).  A district name is text; its *)
(* code is computed character by character, so a name is spelled out as    *)
(* the sequence of its characters.                                         *)

\* the district names of the sheets considered, each with its characters
Spelling ==
  "Kozhikode North" :> <<"K", "o", "z", "h", "i", "k", "o", "d", "e", " ", "N", "o", "r", "t", "h">> @@
  "Goa" :> <<"G", "o", "a">> @@
  "Thrissur" :> <<"T", "h", "r", "i", "s", "s", "u", "r">> @@
  "State Entry" :> <<"S", "t", "a", "t", "e", " ", "E", "n", "t", "r", "y">> @@
  "Unknown" :> <<"U", "n", "k", "n", "o", "w", "n">> @@
  "Kochi" :> <<"K", "o", "c", "h", "i">> @@
  "New Delhi East" :> <<"N", "e", "w", " ", "D", "e", "l", "h", "i", " ", "E", "a", "s", "t">>

CodeDistricts == DOMAIN Spelling

\* str.upper() on the letters that occur
UpperOf ==
  "a" :> "A" @@ "b" :> "B" @@ "c" :> "C" @@ "d" :> "D" @@ "e" :> "E" @@ "f" :> "F" @@
  "g" :> "G" @@ "h" :> "H" @@ "i" :> "I" @@ "j" :> "J" @@ "k" :> "K" @@ "l" :> "L" @@
  "m" :> "M" @@ "n" :> "N" @@ "o" :> "O" @@ "p" :> "P" @@ "q" :> "Q" @@ "r" :> "R" @@
  "s" :> "S" @@ "t" :> "T" @@ "u" :> "U" @@ "v" :> "V" @@ "w" :> "W" @@ "x" :> "X" @@
  "y" :> "Y" @@ "z" :> "Z"

Upper(c) == IF c \in DOMAIN UpperOf THEN UpperOf[c] ELSE c

UpperSeq(w) == [i \in 1..Len(w) |-> Upper(w[i])]

\* str.split(): the maximal runs of non-blank characters, in order
RECURSIVE SplitFrom(_, _, _)
SplitFrom(w, i, word) ==
  IF i > Len(w)
    THEN IF word = <<>> THEN <<>> ELSE <<word>>
    ELSE IF w[i] = " "
           THEN (IF word = <<>> THEN <<>> ELSE <<word>>) \o SplitFrom(w, i + 1, <<>>)
           ELSE SplitFrom(w, i + 1, Append(word, w[i]))

Split(w) == SplitFrom(w, 1, <<>>)

\* ''.join([word[0] for word in words])
Initials(words) == [i \in 1..Len(words) |-> words[i][1]]

\* the rule with the reserved-label test moved behind the length test
district_code_Mutant(district) ==
  LET w == Spelling[district] IN
  IF Len(w) <= 3 THEN UpperSeq(w)
  ELSE IF Len(Split(w)) > 1 THEN UpperSeq(Initials(Split(w)))
  ELSE IF district = "State Entry" THEN <<"S", "T">>
  ELSE UpperSeq(SubSeq(w, 1, 3))

\* district_codes[district], app.py 684-697
district_code(district) ==
  LET w == Spelling[district] IN
  IF district = "State Entry" THEN <<"S", "T">>
  ELSE IF Len(w) <= 3 THEN UpperSeq(w)
  ELSE IF Len(Split(w)) > 1 THEN UpperSeq(Initials(Split(w)))
  ELSE UpperSeq(SubSeq(w, 1, 3))

\* the id "btn_All"; f"btn_{district}" for a district
AllId == [btn |-> TRUE, name |-> "All"]
BtnId(district) == [btn |-> TRUE, name |-> district]

Button(id, label, selected) ==
  [id |-> id, label |-> label, n_clicks |-> 0, active |-> selected]

\* current_df['District'].unique()
available_districts(data_dict) ==
  Unique([k \in 1..Len(data_dict) |-> data_dict[k].District])

\* the children that update_district_buttons returns
ButtonsOf(selected_district, data_dict) ==
  <<Button(AllId, <<"A", "l", "l">>, selected_district = "All")>> \o
  (IF data_dict # <<>>
     THEN LET ds == available_districts(data_dict) IN
          [i \in 1..Len(ds) |->
             Button(BtnId(ds[i]), district_code(ds[i]), selected_district = ds[i])]
     ELSE <<>>)

----------------------------------------------------------------------------
(* The callback graph (app.py 605-932).  A property of a component is an   *)
(* id with a property name; a callback is requested when one of its Inputs *)
(* is written, by the user or by the Output of another callback.           *)

Id(name) == [btn |-> FALSE, name |-> name]

Prop(component, property) == [id |-> component, property |-> property]

DataStoreData == Prop(Id("data_store"), "data")
DistrictStoreData == Prop(Id("district_store"), "data")
ContainerChildren == Prop(Id("district_buttons_container"), "children")

\* the lists with update_dashboard listening to the two dropdowns only
Inputs_Mutant ==
  [c \in Callbacks |->
     CASE c = "refresh_data" -> {Prop(Id("refresh_button"), "n_clicks")}
       [] c = "initial_load" -> {DataStoreData}
       [] c = "update_district_buttons" -> {DistrictStoreData, DataStoreData}
       [] c = "update_district_selection" ->
            {Prop(AllId, "n_clicks"), ContainerChildren}
       [] c = "update_dashboard" ->
            {Prop(Id("month_filter"), "value"),
             Prop(Id("platform_filter"), "value")}]

\* the Input(...) lists of the five @app.callback decorators
Inputs ==
  [c \in Callbacks |->
     CASE c = "refresh_data" -> {Prop(Id("refresh_button"), "n_clicks")}
       [] c = "initial_load" -> {DataStoreData}
       [] c = "update_district_buttons" -> {DistrictStoreData, DataStoreData}
       [] c = "update_district_selection" ->
            {Prop(AllId, "n_clicks"), ContainerChildren}
       [] c = "update_dashboard" ->
            {DistrictStoreData, Prop(Id("month_filter"), "value"),
             Prop(Id("platform_filter"), "value"), DataStoreData}]

\* the Output(...) lists of the five @app.callback decorators
Outputs ==
  [c \in Callbacks |->
     CASE c \in Loads ->
            {DataStoreData, Prop(Id("data_status"), "children"),
             Prop(Id("month_filter"), "options"),
             Prop(Id("platform_filter"), "options")}
       [] c = "update_district_buttons" -> {ContainerChildren}
       [] c = "update_district_selection" -> {DistrictStoreData}
       [] c = "update_dashboard" ->
            {Prop(Id("platform_chart"), "figure"),
             Prop(Id("platform_cards"), "children"),
             Prop(Id("kpi_section"), "children"),
             Prop(Id("engagement_section"), "children")}]

\* callbacks declared with prevent_initial_call=True
prevent_initial_call == {"initial_load", "update_district_selection"}

\* the callbacks that have one of the written properties as an Input
Dependents(props) == {c \in Callbacks : Inputs[c] \cap props # {}}

\* a chain that never closes
Circular_Mutant(c, chain) == FALSE

\* Dash drops a request for a callback that already ran in the chain of
\* callbacks leading to the request
Circular(c, chain) == c \in chain

Requested(chain, props) == {c \in Dependents(props) : ~Circular(c, chain)}

Quiescent == pending = {} /\ \A c \in Loads : ~inflight[c].on

\* `self` (a callback, or "user") has written `props`; `chain` is the chain
\* of callbacks behind the write.  A new request of a callback replaces an
\* older request of it and the response of an older run of it.
Fire(self, chain, props) ==
  LET new == Requested(chain, props)
      sel == "update_district_selection"
  IN  /\ pending' = (pending \ {self}) \cup new
      /\ preds' = [c \in Callbacks |->
                     IF c \notin new THEN (IF c = self THEN {} ELSE preds[c])
                     \* a chain is kept only where it can close
                     ELSE IF Dependents(Outputs[c]) = {} THEN {} ELSE chain]
      /\ inflight' = [c \in Loads |->
                        IF c \in new \/ c = self THEN NoFetch ELSE inflight[c]]
      /\ triggered' = IF sel \in new
                        THEN (IF sel \in pending /\ sel # self THEN triggered ELSE {})
                               \cup (props \cap Inputs[sel])
                        ELSE IF self = sel THEN {} ELSE triggered
      /\ latest' = IF new \cap Loads # {}
                     THEN CHOOSE c \in new \cap Loads : TRUE
                     ELSE latest
      /\ store_from_latest' =
           IF new \cap Loads # {} THEN FALSE
           ELSE IF self \in Loads THEN self = latest
           ELSE store_from_latest
      /\ ignored' = (ignored \/ \E c \in new \cap Loads : inflight[c].on)

MaxCount == 3
MaxClicks == 1

\* the history counts what follows a lone refresh or filter signal
Count(n) == IF signal \in {"refresh", "filter"} /\ n < MaxCount THEN n + 1 ELSE n

\* a user's signal starts the history afresh; the history is kept where
\* signals are watched one by one, and is "off" otherwise
Signal(kind) ==
  /\ signal' = IF signal = "off" THEN "off" ELSE IF Quiescent THEN kind ELSE "mixed"
  /\ fetches' = 0
  /\ writes' = 0
  /\ runs' = 0

\* the sheets the page is served from: unreachable, or two rows of which
\* one has no month
KochiRow == [District |-> "Kochi", Month |-> "May", m |-> ProfileTarget]
GoaRow == [District |-> "Goa", Month |-> NaNStr, m |-> ProfileMixed]

ReactiveSheets ==
  {Unfetched,
   [ok |-> TRUE, header |-> ExpectedColumns, rows |-> <<GoaRow, KochiRow>>]}

\* the published sheet changes, or becomes (un)reachable
SheetChanges ==
  /\ \E s \in ReactiveSheets \ {sheet} : sheet' = s
  /\ UNCHANGED <<data_store, data_status, month_options, platform_options,
                 district_store, month_filter, platform_filter, dashboard, pc>>
  /\ UNCHANGED reactive

\* the user clicks 'refresh_button'
ClickRefresh ==
  /\ Fire("user", {}, {Prop(Id("refresh_button"), "n_clicks")})
  /\ Signal("refresh")
  /\ UNCHANGED <<sheet, data_store, data_status, month_options, platform_options,
                 district_store, month_filter, platform_filter, dashboard, pc,
                 buttons>>

\* the user picks another option of 'month_filter'
SelectMonth ==
  /\ \E i \in 1..Len(month_options) :
       /\ month_options[i] # month_filter
       /\ month_filter' = month_options[i]
  /\ Fire("user", {}, {Prop(Id("month_filter"), "value")})
  /\ Signal("filter")
  /\ UNCHANGED <<sheet, data_store, data_status, month_options, platform_options,
                 district_store, platform_filter, dashboard, pc, buttons>>

\* the options of 'platform_filter' that the user is seen to pick
PlatformChoices == {"All", "Facebook"}

\* the user picks another option of 'platform_filter'
SelectPlatform ==
  /\ \E i \in 1..Len(platform_options) :
       /\ platform_options[i] \in PlatformChoices
       /\ platform_options[i] # platform_filter
       /\ platform_filter' = platform_options[i]
  /\ Fire("user", {}, {Prop(Id("platform_filter"), "value")})
  /\ Signal("filter")
  /\ UNCHANGED <<sheet, data_store, data_status, month_options, platform_options,
                 district_store, month_filter, dashboard, pc, buttons>>

\* the user clicks button i of 'district_buttons_container'
ClickButton(i) ==
  /\ buttons[i].n_clicks < MaxClicks
  /\ buttons' = [buttons EXCEPT ![i].n_clicks = @ + 1]
  /\ Fire("user", {}, {Prop(buttons[i].id, "n_clicks")})
  /\ Signal("click")
  /\ UNCHANGED <<sheet, data_store, data_status, month_options, platform_options,
                 district_store, month_filter, platform_filter, dashboard, pc>>

ClickAll == \E i \in 1..Len(buttons) : buttons[i].id = AllId /\ ClickButton(i)

ClickDistrict == \E i \in 1..Len(buttons) : buttons[i].id # AllId /\ ClickButton(i)

\* a loading callback starts: it calls load_data and holds what it returns
Fetch(c) ==
  /\ c \in pending
  /\ pending' = pending \ {c}
  /\ inflight' = [inflight EXCEPT ![c] =
                    [on |-> TRUE, src |-> sheet, out |-> RefreshOutputs(sheet),
                     chain |-> preds[c]]]
  /\ preds' = [preds EXCEPT ![c] = {}]
  /\ fetches' = Count(fetches)
  /\ UNCHANGED <<sheet, data_store, data_status, month_options, platform_options,
                 district_store, month_filter, platform_filter, dashboard, pc,
                 triggered, buttons, signal, writes, runs, latest,
                 store_from_latest, ignored>>

\* its response arrives: the four Outputs are written
Return(c) ==
  /\ inflight[c].on
  /\ LET out == inflight[c].out IN
       /\ data_store' = out.data
       /\ data_status' = out.status
       /\ month_options' = out.months
       /\ platform_options' = out.platforms
  /\ Fire(c, inflight[c].chain \cup {c}, Outputs[c])
  /\ writes' = Count(writes)
  /\ UNCHANGED <<sheet, district_store, month_filter, platform_filter, dashboard,
                 pc, buttons, signal, fetches, runs>>

refresh_data_fetch == Fetch("refresh_data")
refresh_data_return == Return("refresh_data")
initial_load_fetch == Fetch("initial_load")
initial_load_return == Return("initial_load")

update_district_buttons ==
  LET self == "update_district_buttons" IN
  /\ self \in pending
  /\ buttons' = ButtonsOf(district_store, data_store)
  /\ Fire(self, preds[self] \cup {self}, Outputs[self])
  /\ UNCHANGED <<sheet, data_store, data_status, month_options, platform_options,
                 district_store, month_filter, platform_filter, dashboard, pc,
                 signal, fetches, writes, runs>>

\* button_id = ctx.triggered[0]['prop_id'].split('.')[0] and what follows
SelectedBy(prop) ==
  LET button_id == prop.id IN
  IF button_id = AllId THEN "All"
  ELSE IF button_id.btn THEN button_id.name
  ELSE "All"

update_district_selection ==
  LET self == "update_district_selection" IN
  /\ self \in pending
  /\ IF triggered = {}
       THEN district_store' = "All"
       ELSE \E t \in triggered : district_store' = SelectedBy(t)
  /\ Fire(self, preds[self] \cup {self}, Outputs[self])
  /\ UNCHANGED <<sheet, data_store, data_status, month_options, platform_options,
                 month_filter, platform_filter, dashboard, pc, buttons,
                 signal, fetches, writes, runs>>

update_dashboard_run ==
  LET self == "update_dashboard" IN
  /\ self \in pending
  /\ IF DashboardRaises(district_store, month_filter, platform_filter, data_store)
       THEN pc' = "raised" /\ UNCHANGED dashboard
       ELSE /\ pc' = "updated"
            /\ dashboard' = DashboardOutputs(district_store, month_filter,
                                             platform_filter, data_store)
  /\ Fire(self, preds[self] \cup {self}, Outputs[self])
  /\ runs' = Count(runs)
  /\ UNCHANGED <<sheet, data_store, data_status, month_options, platform_options,
                 district_store, month_filter, platform_filter, buttons,
                 signal, fetches, writes>>

\* the page as served: the layout's values, and the initial call of every
\* callback not declared with prevent_initial_call
Served ==
  /\ sheet \in ReactiveSheets
  /\ data_store = <<>>
  /\ data_status = ""
  /\ month_options = <<>>
  /\ platform_options = <<>>
  /\ district_store = "All"
  /\ month_filter = "All"
  /\ platform_filter = "All"
  /\ dashboard = NoDashboard
  /\ pc = "page"
  /\ pending = Callbacks \ prevent_initial_call
  /\ preds = [c \in Callbacks |-> {}]
  /\ inflight = [c \in Loads |-> NoFetch]
  /\ triggered = {}
  /\ buttons = <<>>
  /\ fetches = 0
  /\ writes = 0
  /\ runs = 0
  /\ latest = "refresh_data"
  /\ store_from_latest = FALSE
  /\ ignored = FALSE

\* The page with the user acting at any moment.  The click of a district's
\* button is left to SpecSignal: its n_clicks is an Input of no callback.
InitReact == Served /\ signal = "off"

NextReact ==
  \/ ClickRefresh
  \/ SelectMonth
  \/ SelectPlatform
  \/ ClickAll
  \/ SheetChanges
  \/ refresh_data_fetch
  \/ refresh_data_return
  \/ initial_load_fetch
  \/ initial_load_return
  \/ update_district_buttons
  \/ update_district_selection
  \/ update_dashboard_run

SpecReact == InitReact /\ [][NextReact]_vars

\* The page with the user acting only when every callback has run, so that
\* what follows one signal can be counted.
InitSignal == Served /\ signal = "load"

LoneClickRefresh == Quiescent /\ ClickRefresh
LoneSelectMonth == Quiescent /\ SelectMonth
LoneSelectPlatform == Quiescent /\ SelectPlatform
LoneClickAll == Quiescent /\ ClickAll
LoneClickDistrict == Quiescent /\ ClickDistrict
LoneSheetChanges == Quiescent /\ SheetChanges

NextSignal ==
  \/ LoneClickRefresh
  \/ LoneSelectMonth
  \/ LoneSelectPlatform
  \/ LoneClickAll
  \/ LoneClickDistrict
  \/ LoneSheetChanges
  \/ refresh_data_fetch
  \/ refresh_data_return
  \/ initial_load_fetch
  \/ initial_load_return
  \/ update_district_buttons
  \/ update_district_selection
  \/ update_dashboard_run

SpecSignal == InitSignal /\ [][NextSignal]_vars

\* The page with at most one click of 'refresh_button' and no user event
\* after it: the callbacks alone, of which Dash keeps running one as long as
\* one is requested or awaited.
LastClickRefresh == signal = "load" /\ Quiescent /\ ClickRefresh

CallbackRuns ==
  \/ refresh_data_fetch
  \/ refresh_data_return
  \/ initial_load_fetch
  \/ initial_load_return
  \/ update_district_buttons
  \/ update_district_selection
  \/ update_dashboard_run

NextLive ==
  \/ LastClickRefresh
  \/ SheetChanges
  \/ refresh_data_fetch
  \/ refresh_data_return
  \/ initial_load_fetch
  \/ initial_load_return
  \/ update_district_buttons
  \/ update_district_selection
  \/ update_dashboard_run

SpecLive ==
  /\ InitSignal
  /\ [][NextLive]_vars
  /\ WF_vars(CallbackRuns)

\* A published dataset of any districts, and update_district_buttons on it.
CodeRows ==
  UNION {[1..n -> [District : CodeDistricts, Month : {"May"}, m : {ProfileTarget}]] :
           n \in 0..MaxRows}

InitCodes ==
  /\ sheet = Unfetched
  /\ \E rows \in CodeRows :
       LET out == RefreshOutputs([ok |-> TRUE, header |-> ExpectedColumns,
                                  rows |-> rows]) IN
         /\ data_store = out.data
         /\ data_status = out.status
         /\ month_options = out.months
         /\ platform_options = out.platforms
  /\ district_store = "All"
  /\ month_filter = "All"
  /\ platform_filter = "All"
  /\ dashboard = NoDashboard
  /\ pc = "refreshed"
  /\ pending = {"update_district_buttons"}
  /\ preds = [c \in Callbacks |-> {}]
  /\ inflight = [c \in Loads |-> NoFetch]
  /\ triggered = {}
  /\ buttons = <<>>
  /\ signal = "off"
  /\ fetches = 0
  /\ writes = 0
  /\ runs = 0
  /\ latest = "none"
  /\ store_from_latest = FALSE
  /\ ignored = FALSE

NextCodes == update_district_buttons

SpecCodes == InitCodes /\ [][NextCodes]_vars

----------------------------------------------------------------------------
\* C12: update_district_buttons gives each district of the dataset one
\* button, in order of first appearance, labelled with the district's code:
\* "ST" for "State Entry" and for no other label, the uppercase name for a
\* name of at most 3 characters, the uppercase initials for a name of several
\* words, the uppercase first 3 characters otherwise ("Unknown" gives "UNK").
ExpectedCode ==
  "Kozhikode North" :> <<"K", "N">> @@
  "Goa" :> <<"G", "O", "A">> @@
  "Thrissur" :> <<"T", "H", "R">> @@
  "State Entry" :> <<"S", "T">> @@
  "Unknown" :> <<"U", "N", "K">> @@
  "Kochi" :> <<"K", "O", "C">> @@
  "New Delhi East" :> <<"N", "D", "E">>

Rendered == buttons # <<>>

C12_DistrictCodes ==
  Rendered =>
    /\ [i \in 1..(Len(buttons) - 1) |-> buttons[i + 1].id.name]
         = available_districts(data_store)
    /\ \A i \in 2..Len(buttons) :
         buttons[i].label = ExpectedCode[buttons[i].id.name]

C12_Witness ==
  /\ Rendered
  /\ \E i, j \in 2..Len(buttons) :
       /\ buttons[i].id.name = "State Entry"
       /\ buttons[j].id.name = "Kozhikode North"

\* C12 as stated: "Unknown" too is a reserved label with a 2-letter code.
C12_Original ==
  Rendered =>
    \A i \in 2..Len(buttons) :
      buttons[i].id.name \in {"State Entry", "Unknown"} => Len(buttons[i].label) = 2

----------------------------------------------------------------------------
\* C13: when load_data raises, refresh_data and initial_load return: they
\* publish the empty dataset and, as status, the error's message, which is
\* not empty; update_dashboard, run while that status is shown, returns its
\* placeholders without raising; and a load that fetched rows publishes them
\* with the empty status.

\* the response of loading callback c arrives in this step
Returns(c) == inflight[c].on /\ ~inflight'[c].on /\ c \notin pending'

\* update_dashboard runs in this step
Aggregates == "update_dashboard" \in pending /\ "update_dashboard" \notin pending'

C13_Step ==
  /\ \A c \in Loads :
       Returns(c) =>
         LET fresh == load_data(inflight[c].src) IN
           /\ fresh.raised =>
                /\ data_store' = <<>>
                /\ data_status' = fresh.msg
                /\ data_status' # ""
           /\ (~fresh.raised /\ fresh.rows # <<>>) =>
                /\ data_store' = fresh.rows
                /\ data_status' = ""
  /\ (Aggregates /\ data_status = LoadErrorMessage) =>
       /\ pc' = "updated"
       /\ dashboard' = DashboardOutputs(district_store, month_filter,
                                        platform_filter, <<>>)

C13_FailedLoad == [][C13_Step]_vars

C13_Witness ==
  /\ data_status = LoadErrorMessage
  /\ data_store = <<>>
  /\ Quiescent
  /\ pc = "updated"
  /\ dashboard.platform_chart.title = "No data available"
  /\ sheet.ok

----------------------------------------------------------------------------
\* C14: after a refresh, successful or failed, the month options and the
\* platform options each are "All" followed by the distinct months
\* (platforms) of the published dataset, without duplicates.
C14_OptionLists ==
  Refreshed =>
    /\ month_options =
         <<"All">> \o Unique([k \in 1..Len(data_store) |-> data_store[k].Month])
    /\ platform_options =
         <<"All">> \o Unique([k \in 1..Len(data_store) |-> data_store[k].Platform])

----------------------------------------------------------------------------
\* C15: once the callbacks following one click of the refresh button have
\* all run, load_data was called once, data_store written once and
\* update_dashboard run once; once those following one filter change have
\* run, update_dashboard was run once and load_data not at all.
C15_OncePerSignal ==
  Quiescent =>
    /\ signal = "refresh" => (fetches = 1 /\ writes = 1 /\ runs = 1)
    /\ signal = "filter" => (fetches = 0 /\ writes = 0 /\ runs = 1)

----------------------------------------------------------------------------
\* C16: once the callbacks following a click of the button of a district of
\* the published dataset have all run, district_store holds that district,
\* the month and platform filters are as before, and the dashboard shows the
\* records of that district alone.
C16_DistrictClick ==
  (Quiescent /\ signal = "click") =>
    \A i \in 1..Len(buttons) :
      buttons[i].n_clicks > 0 =>
        /\ district_store = buttons[i].id.name
        /\ dashboard = DashboardOutputs(buttons[i].id.name, month_filter,
                                        platform_filter, data_store)

----------------------------------------------------------------------------
----------------------------------------------------------------------------
====
